---------------------------- MODULE Spec2Model ----------------------------
(***************************************************************************)
(* A model of the AI Tagger plugin (src/src/main.ts).                      *)
(*                                                                         *)
(* Text is modelled as a sequence of one-character strings, so that the    *)
(* regular expressions, String.replace, split/trim and JSON.parse of the   *)
(* source are computed character by character.                             *)
(***************************************************************************)
EXTENDS Integers, Sequences, FiniteSets, TLC

(***************************************************************************)
(* Bounds of the model.                                                    *)
(***************************************************************************)
MaxHeaderLines == 2
MaxNewTags == 2
MaxBlocks == 2
MaxTasks == 2
MaxRuns == 1
MaxSaving == 1

(***************************************************************************)
(* Text helpers (JavaScript String primitives).                            *)
(***************************************************************************)
NL == "\n"
Whitespace == {" ", "\n"}

Min(S) == CHOOSE x \in S : \A y \in S : x <= y
Max(S) == CHOOSE x \in S : \A y \in S : x >= y

\* pattern p occurs in s starting at position i (1-based)
OccursAt(s, p, i) ==
    /\ i >= 1
    /\ i + Len(p) - 1 <= Len(s)
    /\ \A k \in 1..Len(p) : s[i + k - 1] = p[k]

\* String.prototype.trim: whitespace removed at both ends
trim(s) ==
    LET keep == {i \in 1..Len(s) : s[i] \notin Whitespace}
    IN  IF keep = {} THEN <<>> ELSE SubSeq(s, Min(keep), Max(keep))

RECURSIVE split(_, _)
\* String.prototype.split(sep) for a one-character separator; "" splits to [""]
split(s, sep) ==
    LET at == {i \in 1..Len(s) : s[i] = sep}
    IN  IF at = {} THEN <<s>>
        ELSE <<SubSeq(s, 1, Min(at) - 1)>> \o split(SubSeq(s, Min(at) + 1, Len(s)), sep)

RECURSIVE join(_, _)
\* Array.prototype.join(sep)
join(ss, sep) ==
    IF ss = <<>> THEN <<>>
    ELSE IF Len(ss) = 1 THEN ss[1]
    ELSE ss[1] \o sep \o join(Tail(ss), sep)

RECURSIVE NewSet(_)
\* [...new Set(xs)]: the first occurrence of each element, in insertion order
NewSet(xs) ==
    IF xs = <<>> THEN <<>>
    ELSE LET init == NewSet(SubSeq(xs, 1, Len(xs) - 1))
             last == xs[Len(xs)]
         IN  IF \E i \in 1..Len(init) : init[i] = last THEN init ELSE Append(init, last)

RECURSIVE Expand(_, _, _, _)
\* GetSubstitution: the replacement patterns of String.prototype.replace when the
\* pattern has no capture groups: $$ -> $, $& -> the match, $` -> the text before
\* it, $' -> the text after it; any other $ stands for itself
Expand(repl, matched, before, after) ==
    IF repl = <<>> THEN <<>>
    ELSE IF repl[1] = "$" /\ Len(repl) >= 2 /\ repl[2] \in {"$", "&", "`", "'"}
    THEN (CASE repl[2] = "$" -> <<"$">>
            [] repl[2] = "&" -> matched
            [] repl[2] = "`" -> before
            [] repl[2] = "'" -> after)
         \o Expand(SubSeq(repl, 3, Len(repl)), matched, before, after)
    ELSE <<repl[1]>> \o Expand(Tail(repl), matched, before, after)

\* s.replace(pat, repl) for a string pattern: the first occurrence only
replaceString(s, pat, repl) ==
    LET at == {i \in 1..(Len(s) + 1) : OccursAt(s, pat, i)}
    IN  IF at = {} THEN s
        ELSE LET i == Min(at)
                 before == SubSeq(s, 1, i - 1)
                 after == SubSeq(s, i + Len(pat), Len(s))
             IN  before \o Expand(repl, pat, before, after) \o after

(***************************************************************************)
(* applyTags: the frontmatter merge (main.ts 157-184).                     *)
(***************************************************************************)
OpenDelim == <<"-", "-", "-", "\n">>
CloseDelim == <<"\n", "-", "-", "-">>
TagsKey == <<"t", "a", "g", "s", ":">>

\* content.match(/^---\n([\s\S]*?)\n---/): anchored at the start, the body is lazy,
\* so it ends at the first "\n---" at or after position 5
frontmatterRegex(content) ==
    LET closes == {j \in 5..Len(content) : OccursAt(content, CloseDelim, j)}
    IN  IF OccursAt(content, OpenDelim, 1) /\ closes # {}
        THEN [found |-> TRUE,
              body |-> SubSeq(content, 5, Min(closes) - 1),
              all |-> SubSeq(content, 1, Min(closes) + 3)]
        ELSE [found |-> FALSE, body |-> <<>>, all |-> <<>>]

\* s.match(/tags:\s*\[(.*)\]/): the leftmost "tags:" that is followed by optional
\* whitespace (newlines included), "[", and a "]" later on the line of that "[";
\* the group is greedy, up to the last "]" of that line
tagsRegex(s) ==
    LET open(i) == Min({k \in (i + 5)..Len(s) : s[k] \notin Whitespace} \cup {Len(s) + 1})
        lineEnd(k) == Min({p \in k..Len(s) : s[p] = NL} \cup {Len(s) + 1}) - 1
        closes(i) == {r \in (open(i) + 1)..lineEnd(open(i)) : s[r] = "]"}
        ok(i) == /\ OccursAt(s, TagsKey, i)
                 /\ open(i) <= Len(s)
                 /\ s[open(i)] = "["
                 /\ closes(i) # {}
        starts == {i \in 1..Len(s) : ok(i)}
    IN  IF starts = {} THEN [found |-> FALSE, start |-> 0, end |-> 0, group |-> <<>>]
        ELSE LET i == Min(starts)
             IN  [found |-> TRUE, start |-> i, end |-> Max(closes(i)),
                  group |-> SubSeq(s, open(i) + 1, Max(closes(i)) - 1)]

\* t.trim().replace(/['"]/g, ''): every quote character is removed
stripQuotes(t) == SelectSeq(trim(t), LAMBDA c : c \notin {"'", "\""})

\* existingTags[1].split(',').map(t => t.trim().replace(/['"]/g, ''))
current(group) ==
    LET parts == split(group, ",")
    IN  [i \in 1..Len(parts) |-> stripQuotes(parts[i])]

\* `tags: [${tags.map(t => `"${t}"`).join(', ')}]`
tagField(tags) ==
    TagsKey \o <<" ", "[">>
        \o join([i \in 1..Len(tags) |-> <<"\"">> \o tags[i] \o <<"\"">>], <<",", " ">>)
        \o <<"]">>

\* match[1].replace(/tags:\s*\[.*\]/, repl): the same match as tagsRegex
replaceTags(body, repl) ==
    LET m == tagsRegex(body)
    IN  IF ~m.found THEN body
        ELSE LET before == SubSeq(body, 1, m.start - 1)
                 matched == SubSeq(body, m.start, m.end)
                 after == SubSeq(body, m.end + 1, Len(body))
             IN  before \o Expand(repl, matched, before, after) \o after

\* `---\n${newFrontmatter}\n---`
block(newFrontmatter) == OpenDelim \o newFrontmatter \o CloseDelim

\* a slip in the literal: no blank line after the new header
frontmatter_NoBlankLine(tags) == OpenDelim \o tagField(tags) \o CloseDelim \o <<"\n">>

\* `---\ntags: [...]\n---\n\n`
frontmatter(tags) == OpenDelim \o tagField(tags) \o CloseDelim \o <<"\n", "\n">>

\* the text applyTags hands to vault.modify, from the text vault.read returned
applyTagsText(content, tags) ==
    LET match == frontmatterRegex(content)
    IN  IF match.found
        THEN LET existingTags == tagsRegex(match.body)
             IN  IF existingTags.found
                 THEN LET merged == NewSet(current(existingTags.group) \o tags)
                          newFrontmatter == replaceTags(match.body, tagField(merged))
                      IN  replaceString(content, match.all, block(newFrontmatter))
                 ELSE LET newFrontmatter == match.body \o <<"\n">> \o tagField(tags)
                      IN  replaceString(content, match.all, block(newFrontmatter))
        ELSE frontmatter(tags) \o content


(***************************************************************************)
(* suggestTags: the extraction of the tags from the reply (main.ts 150-154)*)
(***************************************************************************)
\* text.match(/\[.*\]/s): from the first "[" to the last "]" after it
bracketRegex(text) ==
    LET opens == {i \in 1..Len(text) : text[i] = "["}
        closes == {i \in 1..Len(text) : text[i] = "]"}
    IN  IF opens # {} /\ closes # {} /\ Max(closes) > Min(opens)
        THEN [found |-> TRUE, all |-> SubSeq(text, Min(opens), Max(closes))]
        ELSE [found |-> FALSE, all |-> <<>>]

RECURSIVE JSONscan(_, _, _, _, _)
\* JSON.parse of a text over the model's alphabet, which has no digit, backslash
\* or brace and spells none of true, false, null: a value is a string or an
\* array.  The replies of the model hold no array inside an array, and the scan
\* accepts exactly the arrays of strings; anything else is a SyntaxError.
JSONscan(s, i, mode, acc, cur) ==
    IF i > Len(s) THEN [error |-> mode # "end", tags |-> IF mode = "end" THEN acc ELSE <<>>]
    ELSE LET c == s[i]
             fail == [error |-> TRUE, tags |-> <<>>]
         IN  CASE mode = "string" ->
                    IF c = "\"" THEN JSONscan(s, i + 1, "after", Append(acc, cur), <<>>)
                    ELSE IF c = NL THEN fail
                    ELSE JSONscan(s, i + 1, "string", acc, Append(cur, c))
               [] mode # "string" /\ c \in Whitespace -> JSONscan(s, i + 1, mode, acc, cur)
               [] mode = "start" /\ c \notin Whitespace ->
                    IF c = "[" THEN JSONscan(s, i + 1, "first", acc, cur) ELSE fail
               [] mode = "first" /\ c \notin Whitespace ->
                    IF c = "]" THEN JSONscan(s, i + 1, "end", acc, cur)
                    ELSE IF c = "\"" THEN JSONscan(s, i + 1, "string", acc, cur)
                    ELSE fail
               [] mode = "element" /\ c \notin Whitespace ->
                    IF c = "\"" THEN JSONscan(s, i + 1, "string", acc, cur) ELSE fail
               [] mode = "after" /\ c \notin Whitespace ->
                    IF c = "," THEN JSONscan(s, i + 1, "element", acc, cur)
                    ELSE IF c = "]" THEN JSONscan(s, i + 1, "end", acc, cur)
                    ELSE fail
               [] mode = "end" /\ c \notin Whitespace -> fail

JSONparse(s) == JSONscan(s, 1, "start", <<>>, <<>>)

\* what suggestTags returns, or throws, once messages.create resolved with
\* `content` (a list of blocks [type, text]); response.content[0] of an empty
\* list is undefined, and reading its type throws a TypeError
extractTags(content) ==
    IF content = <<>> THEN [error |-> TRUE, tags |-> <<>>]
    ELSE LET text == IF content[1].type = "text" THEN content[1].text ELSE <<>>
             match == bracketRegex(text)
         IN  IF ~match.found THEN [error |-> FALSE, tags |-> <<>>]
             ELSE JSONparse(match.all)


(***************************************************************************)
(* The plugin: its state, the host (vault, workspace, settings tab, modal) *)
(* and the remote model.                                                   *)
(***************************************************************************)
VARIABLES
    loaded,     \* onload has run: the commands and the settings tab are registered
    settings,   \* AITaggerPlugin.settings: [apiKey, autoApply]
    client,     \* AITaggerPlugin.client: <<>> is null, <<k>> a client built with key k
    saving,     \* saveSettings calls suspended on saveData
    vault,      \* the host's notes: file -> text
    tasks,      \* the async calls of tagCurrentNote, tagAllNotes and the modal's apply
    modals,     \* the TagSuggestionModal instances
    mrg,        \* the merge under check: a note text, the tags, the results
    sug         \* the extraction under check: a reply and the result

vars == <<loaded, settings, client, saving, vault, tasks, modals, mrg, sug>>
plugin == <<loaded, settings, client, saving, vault, tasks, modals>>

\* content.trim().length < 50
MinNoteLength == 50

ApiKeys == {"", "sk"}
Files == <<"f1", "f2", "f3">>
NoFile == ""

\* DEFAULT_SETTINGS; model, maxTags and language only shape the prompt
DEFAULT_SETTINGS == [apiKey |-> "", autoApply |-> FALSE]

TagA == <<"a">>
TagB == <<"b">>
TagC == <<"c">>
LongBody == [i \in 1..MinNoteLength |-> "n"]

\* the notes of the vault: a long note without header, a short note and a long
\* note whose header holds a tag field
InitialVault ==
    [f \in {Files[i] : i \in 1..Len(Files)} |->
        CASE f = "f1" -> LongBody
          [] f = "f2" -> <<" ", "n", "n", "\n">>
          [] f = "f3" -> block(tagField(<<TagB>>)) \o <<"\n">> \o LongBody]

TextBlock(text) == [type |-> "text", text |-> text]
OtherBlock == [type |-> "tool_use", text |-> <<>>]
ArrayA == <<"[", "\"", "a", "\"", "]">>
ArrayAA == <<"[", "\"", "a", "\"", ",", " ", "\"", "a", "\"", "]">>

\* what messages.create may resolve with (the remote model is free to answer
\* anything)
Replies ==
    { <<TextBlock(ArrayA)>>,
      <<TextBlock(ArrayAA)>>,
      <<TextBlock(<<"n", "o">>)>>,
      <<TextBlock(<<"[", "a", "]">>)>>,
      <<OtherBlock, TextBlock(ArrayA)>> }

Notice(msg, n) == [msg |-> msg, n |-> n]

\* a call of kind "current" (tagCurrentNote), "all" (tagAllNotes) or "apply"
\* (the modal's applyBtn.onclick), suspended at pc; notice is the last Notice it
\* showed, errors counts its console.error calls
NewTask(kind) ==
    [kind |-> kind, pc |-> "done", idx |-> 0, file |-> NoFile, processed |-> 0,
     errors |-> 0, tags |-> <<>>, data |-> <<>>, modal |-> 0, notice |-> Notice("", 0)]

\* the call returned showing notice n: its locals are gone, what it counted and
\* logged stays observable
Return(r, n) ==
    [NewTask(r.kind) EXCEPT !.notice = n, !.processed = r.processed, !.errors = r.errors]

\* initClient: a client is built when the key is set, and is otherwise left as is
initClient(cl, st) == IF st.apiKey # "" THEN <<st.apiKey>> ELSE cl

\* onload: loadSettings merges the saved data over the defaults, then initClient
OnLoad ==
    /\ ~loaded
    /\ \E key \in ApiKeys, auto \in BOOLEAN :
          LET st == [DEFAULT_SETTINGS EXCEPT !.apiKey = key, !.autoApply = auto]
          IN  /\ settings' = st
              /\ client' = initClient(client, st)
    /\ loaded' = TRUE
    /\ UNCHANGED <<saving, vault, tasks, modals, mrg, sug>>

\* the settings tab's onChange of the API key: the field is set, saveSettings
\* is called and suspends on saveData
SetApiKey ==
    /\ loaded
    /\ saving < MaxSaving
    /\ \E value \in ApiKeys :
          /\ value # settings.apiKey
          /\ settings' = [settings EXCEPT !.apiKey = value]
    /\ saving' = saving + 1
    /\ UNCHANGED <<loaded, client, vault, tasks, modals, mrg, sug>>

\* the settings tab's onChange of the auto-apply toggle
SetAutoApply ==
    /\ loaded
    /\ saving < MaxSaving
    /\ settings' = [settings EXCEPT !.autoApply = ~settings.autoApply]
    /\ saving' = saving + 1
    /\ UNCHANGED <<loaded, client, vault, tasks, modals, mrg, sug>>

\* saveSettings resumes: saveData resolved (initClient runs) or rejected
SaveResolve ==
    /\ saving > 0
    /\ saving' = saving - 1
    /\ \E ok \in BOOLEAN :
          client' = IF ok THEN initClient(client, settings) ELSE client
    /\ UNCHANGED <<loaded, settings, vault, tasks, modals, mrg, sug>>

\* tagCurrentNote up to its first await; view is the active view's file, "none"
\* without an active view, "nofile" for a view without file
TagCurrentNote ==
    /\ loaded
    /\ Len(tasks) < MaxTasks
    /\ \E view \in {"none", "nofile"} \cup {Files[i] : i \in 1..Len(Files)} :
          LET t == NewTask("current")
          IN  tasks' = Append(tasks,
                IF client = <<>>
                THEN Return(t, Notice("Please set your Claude API key", 0))
                ELSE IF view = "none"
                THEN Return(t, Notice("No active note", 0))
                ELSE IF view = "nofile" THEN t
                ELSE [t EXCEPT !.notice = Notice("Analyzing note", 0),
                               !.file = view, !.pc = "read"])
    /\ UNCHANGED <<loaded, settings, client, saving, vault, modals, mrg, sug>>

\* the loop of tagAllNotes moves to the next file, or ends with the summary
nextNote(r) ==
    IF r.idx < Len(Files)
    THEN [r EXCEPT !.idx = r.idx + 1, !.file = Files[r.idx + 1], !.pc = "read"]
    ELSE Return(r, Notice("Done! Tagged", r.processed))

\* processed++ and the progress notice of every tenth note
counted(r) ==
    LET p == r.processed + 1
    IN  [r EXCEPT !.processed = p,
                  !.notice = IF p % 10 = 0 THEN Notice("Progress", p) ELSE @]

\* a catch placed around the loop instead of inside it: the first failure ends
\* the run
caught_EndsRun(r) ==
    Return([r EXCEPT !.errors = r.errors + 1], Notice("Done! Tagged", r.processed))

\* the catch of the loop: console.error, and on to the next note
caught(r) == nextNote([r EXCEPT !.errors = r.errors + 1])

\* tagAllNotes up to its first await
TagAllNotes ==
    /\ loaded
    /\ Len(tasks) < MaxTasks
    /\ Cardinality({t \in 1..Len(tasks) : tasks[t].kind = "all"}) < MaxRuns
    /\ LET t == NewTask("all")
       IN  tasks' = Append(tasks,
             IF client = <<>>
             THEN Return(t, Notice("Please set your Claude API key", 0))
             ELSE nextNote([t EXCEPT !.notice = Notice("Tagging notes", Len(Files))]))
    /\ UNCHANGED <<loaded, settings, client, saving, vault, modals, mrg, sug>>

\* the bulk run applies every non-empty suggestion, autoApply or not
afterSuggest_IgnoresAutoApply(r, res) ==
    CASE r.kind = "current" ->
            IF res.error THEN Return(r, Notice("Error", 0))
            ELSE IF Len(res.tags) = 0 THEN Return(r, Notice("No tags suggested", 0))
            ELSE [r EXCEPT !.pc = "modal", !.tags = res.tags]
      [] r.kind = "all" ->
            IF res.error THEN caught(r)
            ELSE IF Len(res.tags) > 0
            THEN [r EXCEPT !.tags = res.tags, !.pc = "applyRead"]
            ELSE nextNote(counted([r EXCEPT !.tags = res.tags]))

\* what follows suggestTags in tagCurrentNote (the notices, the modal) and in the
\* loop of tagAllNotes (the catch, applyTags, processed++)
afterSuggest(r, res) ==
    CASE r.kind = "current" ->
            IF res.error THEN Return(r, Notice("Error", 0))
            ELSE IF Len(res.tags) = 0 THEN Return(r, Notice("No tags suggested", 0))
            ELSE [r EXCEPT !.pc = "modal", !.tags = res.tags]
      [] r.kind = "all" ->
            IF res.error THEN caught(r)
            ELSE IF Len(res.tags) > 0 /\ settings.autoApply
            THEN [r EXCEPT !.tags = res.tags, !.pc = "applyRead"]
            ELSE nextNote(counted([r EXCEPT !.tags = res.tags]))

\* a modal after close(): onClose empties its content, and nothing reads its
\* tags or file again; a pending apply still reads selected.size
Closed(d) ==
    [tags |-> <<>>, file |-> NoFile, selected |-> d.selected, btn |-> <<>>, open |-> FALSE]

\* new TagSuggestionModal(app, tags, file, plugin).open()
NewModal(tags, file) ==
    [tags |-> tags, file |-> file, selected |-> NewSet(tags),
     btn |-> [i \in 1..Len(tags) |-> TRUE], open |-> TRUE]

\* tagCurrentNote opens the modal on its suggestion and returns
opened(r) == IF r.pc = "modal" THEN Return(r, r.notice) ELSE r

\* vault.read of tagCurrentNote or of the loop of tagAllNotes resolves or rejects
ReadResolve(t) ==
    /\ tasks[t].pc = "read"
    /\ \E ok \in BOOLEAN :
          LET r == tasks[t]
              content == vault[r.file]
              r2 == IF ~ok
                    THEN IF r.kind = "all" THEN caught(r)
                         ELSE Return(r, Notice("Error", 0))
                    ELSE IF r.kind = "all" /\ Len(trim(content)) < MinNoteLength
                    THEN nextNote(r)
                    ELSE IF client = <<>>
                    THEN afterSuggest(r, [error |-> FALSE, tags |-> <<>>])
                    ELSE [r EXCEPT !.pc = "remote"]
          IN  /\ tasks' = [tasks EXCEPT ![t] = opened(r2)]
              /\ modals' = IF r2.pc = "modal" THEN Append(modals, NewModal(r2.tags, r2.file))
                           ELSE modals
    /\ UNCHANGED <<loaded, settings, client, saving, vault, mrg, sug>>

\* how the awaited suggestTags settles: messages.create resolves with a reply,
\* which is scanned and parsed, or it rejects (a transport or auth error)
Suggestions ==
    {extractTags(reply) : reply \in Replies} \cup {[error |-> TRUE, tags |-> <<>>]}

\* messages.create resolves or rejects, and the call goes on with the suggestion
RemoteResolve(t) ==
    /\ tasks[t].pc = "remote"
    /\ \E res \in Suggestions :
          LET r == tasks[t]
              r2 == afterSuggest(r, res)
          IN  /\ tasks' = [tasks EXCEPT ![t] = opened(r2)]
              /\ modals' = IF r2.pc = "modal" THEN Append(modals, NewModal(r2.tags, r2.file))
                           ELSE modals
    /\ UNCHANGED <<loaded, settings, client, saving, vault, mrg, sug>>

\* applyTags: vault.read resolves, the new text is computed and vault.modify is
\* called with it; or vault.read rejects
ApplyReadResolve(t) ==
    /\ tasks[t].pc = "applyRead"
    /\ \E ok \in BOOLEAN :
          LET r == tasks[t]
          IN  tasks' = [tasks EXCEPT ![t] =
                IF ok THEN [r EXCEPT !.data = applyTagsText(vault[r.file], r.tags),
                                     !.pc = "applyWrite"]
                ELSE IF r.kind = "all" THEN caught(r)
                ELSE Return(r, r.notice)]
    /\ UNCHANGED <<loaded, settings, client, saving, vault, modals, mrg, sug>>

\* applyTags: vault.modify resolves (the note holds the new text) or rejects; the
\* loop counts the note, the modal shows its notice and closes
ApplyWriteResolve(t) ==
    /\ tasks[t].pc = "applyWrite"
    /\ \E ok \in BOOLEAN :
          LET r == [tasks[t] EXCEPT !.data = <<>>]
          IN  /\ vault' = IF ok THEN [vault EXCEPT ![r.file] = tasks[t].data] ELSE vault
              /\ tasks' = [tasks EXCEPT ![t] =
                    IF r.kind = "all"
                    THEN IF ok THEN nextNote(counted(r)) ELSE caught(r)
                    ELSE IF ok
                    THEN Return(r, Notice("Applied tags", Len(modals[r.modal].selected)))
                    ELSE Return(r, r.notice)]
              /\ modals' = IF r.kind = "apply" /\ ok
                           THEN [modals EXCEPT ![r.modal] = Closed(@)]
                           ELSE modals
    /\ UNCHANGED <<loaded, settings, client, saving, mrg, sug>>

\* btn.onclick of the i-th button of the modal
Toggle(m, i) ==
    /\ modals[m].open
    /\ LET d == modals[m]
           tag == d.tags[i]
           has == \E k \in 1..Len(d.selected) : d.selected[k] = tag
       IN  modals' = [modals EXCEPT ![m] =
             IF has
             THEN [d EXCEPT !.selected = SelectSeq(d.selected, LAMBDA x : x # tag),
                            !.btn[i] = FALSE]
             ELSE [d EXCEPT !.selected = Append(d.selected, tag), !.btn[i] = TRUE]]
    /\ UNCHANGED <<loaded, settings, client, saving, vault, tasks, mrg, sug>>

\* applyBtn.onclick up to the first await of applyTags
ClickApply(m) ==
    /\ modals[m].open
    /\ Len(tasks) < MaxTasks
    /\ tasks' = Append(tasks, [NewTask("apply") EXCEPT
                    !.file = modals[m].file, !.tags = modals[m].selected,
                    !.modal = m, !.pc = "applyRead"])
    /\ UNCHANGED <<loaded, settings, client, saving, vault, modals, mrg, sug>>

\* the user dismisses the modal
CloseModal(m) ==
    /\ modals[m].open
    /\ modals' = [modals EXCEPT ![m] = Closed(@)]
    /\ UNCHANGED <<loaded, settings, client, saving, vault, tasks, mrg, sug>>

NoMerge == [stage |-> 0, hasHeader |-> FALSE, hasField |-> FALSE, before |-> <<>>,
            after |-> <<>>, E |-> <<>>, rest |-> <<>>, note |-> <<>>, tags |-> <<>>,
            once |-> <<>>, twice |-> <<>>]
NoSuggest == [stage |-> 0, reply |-> <<>>, result |-> [error |-> FALSE, tags |-> <<>>]]

PluginInit ==
    /\ loaded = FALSE
    /\ settings = DEFAULT_SETTINGS
    /\ client = <<>>
    /\ saving = 0
    /\ vault = InitialVault
    /\ tasks = <<>>
    /\ modals = <<>>

Init == PluginInit /\ mrg = NoMerge /\ sug = NoSuggest

Next ==
    \/ OnLoad
    \/ SetApiKey
    \/ SetAutoApply
    \/ SaveResolve
    \/ TagCurrentNote
    \/ TagAllNotes
    \/ \E t \in 1..Len(tasks) : ReadResolve(t)
    \/ \E t \in 1..Len(tasks) : RemoteResolve(t)
    \/ \E t \in 1..Len(tasks) : ApplyReadResolve(t)
    \/ \E t \in 1..Len(tasks) : ApplyWriteResolve(t)
    \/ \E m \in 1..Len(modals) : \E i \in 1..Len(modals[m].tags) : Toggle(m, i)
    \/ \E m \in 1..Len(modals) : ClickApply(m)
    \/ \E m \in 1..Len(modals) : CloseModal(m)

Spec == Init /\ [][Next]_vars

\* the plugin driven by the "Tag all notes" command and the settings tab alone
BulkNext ==
    \/ OnLoad
    \/ SetApiKey
    \/ SetAutoApply
    \/ SaveResolve
    \/ TagAllNotes
    \/ \E t \in 1..Len(tasks) : ReadResolve(t)
    \/ \E t \in 1..Len(tasks) : RemoteResolve(t)
    \/ \E t \in 1..Len(tasks) : ApplyReadResolve(t)
    \/ \E t \in 1..Len(tasks) : ApplyWriteResolve(t)

BulkSpec == Init /\ [][BulkNext]_vars


(***************************************************************************)
(* applyTags as a function of the note text: MergeSpec draws a note and a  *)
(* tag sequence, and applies applyTags to the note once, then once more.   *)
(***************************************************************************)
SeqsUpTo(S, n) == UNION {[1..k -> S] : k \in 0..n}

\* header lines that are not the tag field: `aliases: ["foo"]`, `mytags: ["q"]`
\* and `cost: $$`
LineAliases ==
    <<"a", "l", "i", "a", "s", "e", "s", ":", " ", "[", "\"", "f", "o", "o", "\"", "]">>
LineMytags == <<"m", "y">> \o tagField(<<<<"q">>>>)
LineCost == <<"c", "o", "s", "t", ":", " ", "$", "$">>
OtherLines == {LineAliases, LineMytags, LineCost}

ExistingTagSeqs == {<<>>, <<TagA>>, <<TagA, TagB>>}
NewTagSeqs == SeqsUpTo({TagB, TagC}, MaxNewTags)
Rests == {<<>>, <<"\n", "n", "$", "$">>}

\* note texts in which the source recognizes no header: empty, plain, an opening
\* delimiter without closing one, "---\n---\nn", a block that is not at the
\* start, a block after a leading space
NoHeaderTexts ==
    { <<>>,
      <<"n">>,
      OpenDelim \o <<"k", ":", " ", "v">>,
      OpenDelim \o <<"-", "-", "-", "\n", "n">>,
      <<"n">> \o CloseDelim \o <<"\n", "k">> \o CloseDelim,
      <<" ">> \o OpenDelim \o <<"k">> \o CloseDelim }

\* a note with a header: the lines before the tag field, the tag field holding
\* E (when hasField), the lines after it, and the text after the closing delimiter
HeaderNote(before, hasField, E, after, rest) ==
    LET lines == before \o (IF hasField THEN <<tagField(E)>> ELSE <<>>) \o after
    IN  OpenDelim \o join(lines, <<"\n">>) \o CloseDelim \o rest

\* the lines before and after the tag field: at most MaxHeaderLines in all
LinesAround ==
    {p \in SeqsUpTo(OtherLines, MaxHeaderLines) \X SeqsUpTo(OtherLines, MaxHeaderLines) :
        Len(p[1]) + Len(p[2]) <= MaxHeaderLines}

MergeInputs ==
    { [NoMerge EXCEPT !.hasHeader = TRUE, !.hasField = TRUE, !.before = p[1],
                      !.after = p[2], !.E = e, !.rest = r, !.tags = t,
                      !.note = HeaderNote(p[1], TRUE, e, p[2], r)] :
        p \in LinesAround, e \in ExistingTagSeqs, r \in Rests, t \in NewTagSeqs }
    \cup
    { [NoMerge EXCEPT !.hasHeader = TRUE, !.before = b, !.rest = r, !.tags = t,
                      !.note = HeaderNote(b, FALSE, <<>>, <<>>, r)] :
        b \in SeqsUpTo(OtherLines, MaxHeaderLines), r \in Rests, t \in NewTagSeqs }
    \cup
    { [NoMerge EXCEPT !.note = n, !.tags = t] : n \in NoHeaderTexts, t \in NewTagSeqs }

MergeInit ==
    /\ PluginInit
    /\ sug = NoSuggest
    /\ mrg \in MergeInputs

\* applyTags on the note
ApplyOnce ==
    /\ mrg.stage = 0
    /\ mrg' = [mrg EXCEPT !.stage = 1, !.once = applyTagsText(mrg.note, mrg.tags)]
    /\ UNCHANGED <<plugin, sug>>

\* applyTags with the same tags on the note it wrote
ApplyTwice ==
    /\ mrg.stage = 1
    /\ mrg' = [mrg EXCEPT !.stage = 2, !.twice = applyTagsText(mrg.once, mrg.tags)]
    /\ UNCHANGED <<plugin, sug>>

MergeNext == ApplyOnce \/ ApplyTwice

MergeSpec == MergeInit /\ [][MergeNext]_vars

(***************************************************************************)
(* suggestTags as a function of the reply: SuggestSpec draws a reply and   *)
(* extracts the tags.                                                      *)
(***************************************************************************)
\* reply texts: arrays, prose, an array inside prose, two arrays, malformed arrays
ReplyTexts ==
    { <<>>,
      ArrayA,
      ArrayAA,
      <<"[", "]">>,
      <<"n", "o">>,
      <<"n", " ">> \o ArrayA \o <<"\n", "o">>,
      ArrayA \o <<"\n">> \o ArrayA,
      <<"[", "\"", "a", "\"", ",", "\n", "\"", "b", "\"", "]">>,
      <<"[", "a", "]">>,
      <<"]", " ", "[">>,
      <<"[", "\"", "a", "\"", ",", "]">> }

Blocks == {TextBlock(t) : t \in ReplyTexts} \cup {OtherBlock}

SuggestInit ==
    /\ PluginInit
    /\ mrg = NoMerge
    /\ sug \in {[NoSuggest EXCEPT !.reply = r] : r \in SeqsUpTo(Blocks, MaxBlocks)}

\* suggestTags resumes with the reply
Extract ==
    /\ sug.stage = 0
    /\ sug' = [sug EXCEPT !.stage = 1, !.result = extractTags(sug.reply)]
    /\ UNCHANGED <<plugin, mrg>>

SuggestNext == Extract

SuggestSpec == SuggestInit /\ [][SuggestNext]_vars


(***************************************************************************)
(* Reading a note the way the specification describes it, for the claims:  *)
(* the header is the block of lines between a first line "---" and the     *)
(* next line "---"; the tag field is its first line that starts "tags:".   *)
(***************************************************************************)
Delim == <<"-", "-", "-">>
LinesOf(text) == split(text, NL)
ClosingLines(text) == {k \in 2..Len(LinesOf(text)) : LinesOf(text)[k] = Delim}
HasHeader(text) == LinesOf(text)[1] = Delim /\ ClosingLines(text) # {}
HeaderLinesOf(text) == SubSeq(LinesOf(text), 2, Min(ClosingLines(text)) - 1)
IsTagLine(line) == OccursAt(line, TagsKey, 1)
TagLineIndex(lines) == Min({i \in 1..Len(lines) : IsTagLine(lines[i])} \cup {Len(lines) + 1})
\* the tag field of the note; <<>> when there is none
TagFieldOf(text) ==
    IF ~HasHeader(text) THEN <<>>
    ELSE LET lines == HeaderLinesOf(text)
         IN  IF TagLineIndex(lines) > Len(lines) THEN <<>> ELSE lines[TagLineIndex(lines)]
\* the header lines other than the tag field, in order
OtherLinesOf(text) ==
    LET lines == HeaderLinesOf(text)
        k == TagLineIndex(lines)
    IN  SubSeq(lines, 1, k - 1) \o SubSeq(lines, k + 1, Len(lines))
EndsWith(text, suffix) ==
    /\ Len(suffix) <= Len(text)
    /\ SubSeq(text, Len(text) - Len(suffix) + 1, Len(text)) = suffix
\* the elements of xs, each at its first occurrence
FirstSeen(xs) ==
    LET keep == {i \in 1..Len(xs) : \A j \in 1..(i - 1) : xs[j] # xs[i]}
        nth[k \in 0..Len(xs)] ==
            IF k = 0 THEN 0 ELSE Min({i \in keep : i > nth[k - 1]} \cup {Len(xs) + 1})
    IN  [k \in 1..Cardinality(keep) |-> xs[nth[k]]]
\* the text names no header: no opening delimiter line at the start, or no
\* closing delimiter after it
NoHeaderRecognized(text) ==
    \/ ~OccursAt(text, OpenDelim, 1)
    \/ \A j \in 5..Len(text) : ~OccursAt(text, CloseDelim, j)
Quoted(tags) == [i \in 1..Len(tags) |-> <<"\"">> \o tags[i] \o <<"\"">>]

\* C1: applyTags(T) followed by applyTags(T) leaves the tag field that a single
\* applyTags(T) wrote, for a note with a tag field, with a header without one, or
\* without header, and for every T, the empty sequence included.
C1_ApplyTwiceSameTagField ==
    mrg.stage = 2 => TagFieldOf(mrg.twice) = TagFieldOf(mrg.once)

\* C2: when the header has an inline tag field holding E, applyTags(N) rewrites
\* the field to exactly E in its order, followed by the elements of N that are not
\* in E in the order supplied, duplicates collapsed, and nothing else.
C2_TagFieldIsUnion ==
    (mrg.stage >= 1 /\ mrg.hasField) =>
        TagFieldOf(mrg.once) = tagField(FirstSeen(mrg.E \o mrg.tags))

\* C3: for a note with a recognized header, applyTags changes nothing but the tag
\* field: the other header lines are there afterwards, identical and in the same
\* order, and the text after the closing delimiter is unchanged.
C3_OtherLinesUntouched ==
    (mrg.stage >= 1 /\ mrg.hasHeader) =>
        /\ HasHeader(mrg.once)
        /\ OtherLinesOf(mrg.once) = OtherLinesOf(mrg.note)
        /\ EndsWith(mrg.once, CloseDelim \o mrg.rest)

\* C4: for a note text in which no header is recognized and every T, applyTags
\* writes "---\ntags: [" then the elements of T, each double-quoted, joined by
\* comma-space, then "]\n---\n\n", followed by the whole original text.
C4_HeaderlessSynthesis ==
    (mrg.stage >= 1 /\ NoHeaderRecognized(mrg.note)) =>
        mrg.once = <<"-", "-", "-", "\n", "t", "a", "g", "s", ":", " ", "[">>
                   \o join(Quoted(mrg.tags), <<",", " ">>)
                   \o <<"]", "\n", "-", "-", "-", "\n", "\n">>
                   \o mrg.note

\* C4 happens: applyTags wrote a note that opens with a delimiter line and never
\* closes it, with two tags
C4_Witness ==
    /\ mrg.stage >= 1
    /\ OccursAt(mrg.note, OpenDelim, 1)
    /\ NoHeaderRecognized(mrg.note)
    /\ Len(mrg.tags) = 2
    /\ Len(mrg.once) > Len(mrg.note)

\* C8: suggestTags scans the first text-typed block of the reply: when that block
\* holds no "[" followed later by a "]", the result is the empty sequence and no
\* error; when it does, the result is the JSON parse of the span from its first
\* "[" to its last "]".
C8_FirstTextBlockScanned ==
    LET texts == {i \in 1..Len(sug.reply) : sug.reply[i].type = "text"}
        text == sug.reply[Min(texts)].text
        opens == {i \in 1..Len(text) : text[i] = "["}
        closes == {i \in 1..Len(text) : text[i] = "]"}
        bracketed == \E i \in opens, j \in closes : i < j
    IN  (sug.stage = 1 /\ texts # {}) =>
            IF bracketed
            THEN sug.result = JSONparse(SubSeq(text, Min(opens), Max(closes)))
            ELSE sug.result = [error |-> FALSE, tags |-> <<>>]

(***************************************************************************)
(* The claims about the plugin.                                            *)
(***************************************************************************)
RunsOfAll == {t \in 1..Len(tasks) : tasks[t].kind = "all" /\ tasks[t].pc # "done"}
InFlight == {t \in 1..Len(tasks) : tasks[t].pc = "remote"}
Applying == {t \in 1..Len(tasks) : tasks[t].pc \in {"applyRead", "applyWrite"}}
SetOf(xs) == {xs[i] : i \in 1..Len(xs)}

\* C5: whenever tagCurrentNote or tagAllNotes is invoked while the configured
\* apiKey is empty (and every save of the settings has completed), the call ends
\* at once with the notice asking for the key: no note is read and no remote call
\* is made.
C5_EmptyKeyAborts ==
    [][(/\ Len(tasks') = Len(tasks) + 1
        /\ tasks'[Len(tasks')].kind \in {"current", "all"}
        /\ settings.apiKey = ""
        /\ saving = 0)
       => (/\ tasks'[Len(tasks')].pc = "done"
           /\ tasks'[Len(tasks')].notice = Notice("Please set your Claude API key", 0))]_vars

\* C6: in tagAllNotes a failure on a note never aborts the run: the loop moves
\* on to the next note in the host's order, the run ends only after the last
\* note and with the summary of what it counted, and the processed count grows
\* by one only when a note's suggestion (without apply) or its write completed;
\* a failed note is never counted.
C6_FailureNeverAborts ==
    [][\A t \in RunsOfAll :
          LET r == tasks[t]
              r2 == tasks'[t]
              failed == r2.errors = r.errors + 1
              completed == r2.pc = "done" \/ r2.idx # r.idx
          IN  r2 # r =>
                /\ r2.errors \in {r.errors, r.errors + 1}
                /\ r2.processed \in {r.processed, r.processed + 1}
                /\ failed => (r2.processed = r.processed /\ completed)
                /\ r2.processed = r.processed + 1 =>
                      (r.pc \in {"remote", "applyWrite"} /\ completed)
                /\ completed =>
                      IF r.idx < Len(Files)
                      THEN r2.pc = "read" /\ r2.idx = r.idx + 1 /\ r2.file = Files[r.idx + 1]
                      ELSE r2.pc = "done" /\ r2.notice = Notice("Done! Tagged", r2.processed)]_vars

\* C6 happens: a run ended with its summary after one note failed and a later
\* note was counted
C6_Witness ==
    \E t \in 1..Len(tasks) :
        /\ tasks[t].kind = "all"
        /\ tasks[t].pc = "done"
        /\ tasks[t].errors = 1
        /\ tasks[t].notice = Notice("Done! Tagged", 1)

\* C7: in tagAllNotes, a note whose suggestion is empty, and any note when
\* autoApply is false, is counted and not written; a run's write of a note
\* follows only from a non-empty suggestion with autoApply true.
C7_DiscardedIsCountedNotWritten ==
    [][/\ \A t \in RunsOfAll :
            LET r == tasks[t]
                r2 == tasks'[t]
            IN  /\ (r.pc = "remote" /\ r2 # r /\ r2.errors = r.errors
                        /\ (Len(r2.tags) = 0 \/ ~settings.autoApply)) =>
                      (r2.processed = r.processed + 1 /\ r2.pc # "applyRead"
                         /\ vault' = vault)
                /\ (r2.pc = "applyRead" /\ r.pc # "applyRead") =>
                      (r.pc = "remote" /\ Len(r2.tags) > 0 /\ settings.autoApply)
                /\ (r2.pc = "applyWrite" /\ r.pc # "applyWrite") => r.pc = "applyRead"
       /\ vault' # vault =>
            \E t \in 1..Len(tasks) : tasks[t].pc = "applyWrite" /\ tasks'[t] # tasks[t]]_vars

\* C7 happens: a run counted its first note on a non-empty suggestion that it
\* discarded, and no note was written
C7_Witness ==
    /\ vault = InitialVault
    /\ \E t \in RunsOfAll :
          tasks[t].idx = 2 /\ tasks[t].processed = 1 /\ Len(tasks[t].tags) > 0

\* C9: at most one suggestion request is in flight at any moment, whatever the
\* commands the user invokes, and no two passes of applyTags on the same note
\* overlap.
C9_OneRequestInFlight ==
    /\ Cardinality(InFlight) <= 1
    /\ \A t, u \in Applying : t # u => tasks[t].file # tasks[u].file

\* C10: every button of the review dialog starts selected, and the tags handed to
\* applyTags on confirmation are exactly those whose button is shown selected.
C10_AppliedIsShown ==
    [][/\ Len(modals') = Len(modals) + 1 =>
            LET d == modals'[Len(modals')]
            IN  SetOf(d.selected) = SetOf(d.tags) /\ \A i \in 1..Len(d.btn) : d.btn[i]
       /\ (Len(tasks') = Len(tasks) + 1 /\ tasks'[Len(tasks')].kind = "apply") =>
            LET d == modals[tasks'[Len(tasks')].modal]
            IN  SetOf(tasks'[Len(tasks')].tags) = {d.tags[i] : i \in {k \in 1..Len(d.btn) : d.btn[k]}}]_vars

=============================================================================
